---- MODULE Spec2Model ----
(***************************************************************************)
(* Model of planck_anim.py: Planck's law over a wavelength grid            *)
(* (planck_equation), the frame renderer (plot_planck) with the pyplot     *)
(* state it acts on, and the module-level temperature sweep.               *)
(*                                                                         *)
(* Representation.                                                         *)
(*  - A wavelength is an integer count of 1/999 nm, so that the grid       *)
(*    np.linspace(100e-9, 2e-6, 1000), whose step is 1900/999 nm, is the   *)
(*    integer sequence 99900, 101800, ..., 1998000.                        *)
(*  - A temperature is a positive integer number of kelvin.                *)
(*  - The program computes in binary64. The model does not reproduce its   *)
(*    bits; it encloses them. Inside planck_equation a positive real is    *)
(*    an enclosure [h, l, r, e]: some number x with                        *)
(*        |x - (h * 2^15 + l) * 2^e|  <=  r * 2^e,                         *)
(*    the mantissa h * 2^15 + l having 45 bits (2^29 <= h < 2^30,          *)
(*    0 <= l < 2^15) and the radius r staying below 2^16. Each operation   *)
(*    returns an enclosure of every binary64 result the program can get    *)
(*    from operands in the enclosures it is given: its radius takes up     *)
(*    the operands' radii, what the model's own steps cut off, and the     *)
(*    rounding of the binary64 operation. Every intermediate fits a        *)
(*    32-bit integer. The enclosures cover wavelengths of one unit or      *)
(*    more and temperatures of 1 K or more with h c / (wavelength k temp)  *)
(*    at least 1/64; the program's grid and temperatures lie well inside.  *)
(*  - A spectral radiance, as stored in arrays and drawn, is a pair of     *)
(*    30-bit floats [lo, hi] with lo <= radiance <= hi, in W m^-3 sr^-1;   *)
(*    a float [m, e] stands for m * 2^e, 2^29 <= m < 2^30, and m = 0 is 0. *)
(*    Where two radiances' pairs overlap, the model cannot tell which is   *)
(*    larger, and takes both orders for possible.                          *)
(***************************************************************************)
EXTENDS Integers, Sequences, FiniteSets, TLC

----------------------------------------------------------------------------
(* Enclosures of the binary64 arithmetic (numpy's *, /, **, exp, -).       *)

B14 == 2^14
B15 == 2^15
B25 == 2^25
B29 == 2^29
B30 == 2^30

\* The arithmetic is written as functions, whose arguments are values,
\* each computed once.
Real == [h : Nat, l : Nat, r : Nat, e : Int]
Pair == [h : Int, l : Nat]

\* The enclosure of mantissa h * 2^15 + l (h > 0 of any size below 2^31),
\* radius r and exponent e, with the mantissa brought to 45 bits by
\* halving or by doubling (15, 8 or 4 times at once, or once). Halving
\* drops a bit of the mantissa, which the radius takes up.
Norm[h \in Nat, l \in Nat, r \in Nat, e \in Int] ==
    IF h >= B30
    THEN Norm[h \div 2, (h % 2) * B14 + l \div 2, r \div 2 + 1, e + 1]
    ELSE IF h >= B29 THEN [h |-> h, l |-> l, r |-> r, e |-> e]
    ELSE IF h < B14 THEN Norm[h * B15 + l, 0, r * B15, e - 15]
    ELSE IF h < 2^21
    THEN Norm[h * 256 + l \div 128, (l * 256) % B15, r * 256, e - 8]
    ELSE IF h < B25
    THEN Norm[h * 16 + l \div 2048, (l * 16) % B15, r * 16, e - 4]
    ELSE Norm[2 * h + l \div B14, (2 * l) % B15, 2 * r, e - 1]

\* An integer 0 < n < 2^31, exactly.
FromInt(n) == Norm[n, 0, 0, -15]

\* a * b / 2^29 for a, b < 2^30, rounded down, by 15-bit halves.
MulHi[a \in Nat, b \in Nat] ==
    LET ah == a \div B15
        al == a % B15
        bh == b \div B15
        bl == b % B15
    IN  2 * (ah * bh) + ((ah * bl + al * bh) + ((al * bl) \div B15)) \div B14

\* The sum c4 * 2^15 + s as a pair of limbs.
Carry[c4 \in Int, s \in Int] == [h |-> c4 + s \div B15, l |-> s % B15]

\* a * b / 2^45 for a = ah * 2^15 + al and b = bh * 2^15 + bl below 2^45,
\* by 15-bit limbs; the partial products below 2^30 are left out and those
\* at 2^30 cut, so the result is at most 6 below the quotient and never
\* above it.
MulCore[ah \in Nat, al \in Nat, bh \in Nat, bl \in Nat] ==
    LET a2 == ah \div B15
        a1 == ah % B15
        b2 == bh \div B15
        b1 == bh % B15
    IN  Carry[a2 * b2,
              a2 * b1 + a1 * b2 + (a2 * bl) \div B15 + (a1 * b1) \div B15
                  + (al * b2) \div B15]

\* What a product's radius takes up besides its factors' radii: 6 for
\* MulCore, 3 for the rounding of the radius itself, 1 for the rounding of
\* the binary64 product (2^-53 of it, the mantissa's unit being 2^-44).
MulSlack == 10

\* The enclosure of mantissa p, radius r and exponent e.
Scaled[p \in Pair, r \in Nat, e \in Int] == Norm[p.h, p.l, r, e]

\* a * b
FMul[a \in Real, b \in Real] ==
    Scaled[MulCore[a.h, a.l, b.h, b.l],
           ((a.h \div B15 + 1) * b.r) \div B15
               + ((b.h \div B15 + 1) * a.r) \div B15 + MulSlack,
           a.e + b.e + 45]

\* One Newton step towards 2^58 / b from the estimate y.
Newton[b \in Nat, y \in Nat] == MulHi[y, B30 - MulHi[b, y]]

\* 2^58 / b for 2^29 <= b < 2^30, to about 28 bits: a 14-bit estimate and
\* two Newton steps.
Recip[b \in Nat] == Newton[b, Newton[b, (B30 \div (b \div B15)) * 8192]]

\* 2^74 / b from 2^58 / b, kept below 2^30.
Estimate[y \in Nat] == IF y = B29 THEN B30 - 1 ELSE 2 * y

Whole[p \in Pair] == p.h * B15 + p.l

\* q * |d| / 2^44 with the sign of d, for an estimate q and a defect d.
Correction[q \in Nat, d \in Int] ==
    IF d >= 0
    THEN Whole[MulCore[q, 0, (2 * d) \div B15, (2 * d) % B15]]
    ELSE -Whole[MulCore[q, 0, (-2 * d) \div B15, (-2 * d) % B15]]

\* 2^44 - b * q / 2^45: how far the estimate q * 2^15 is from 2^89 / b.
Defect[p \in Pair] == (B29 - p.h) * B15 - p.l

\* What a reciprocal's radius takes up besides its argument's: 12 for the
\* defect, 6 for the correction, 1 for Newton's remainder, 1 for the
\* rounding of the radius, 1 for the rounding of the binary64 quotient.
InvSlack == 24

\* The Newton step from the estimate q * 2^15 of 2^89 / b.
Refined[b \in Real, q \in Nat, corr \in Int] ==
    Norm[q + corr \div B15, corr % B15,
         (((q + corr \div B15) \div B15 + 2) * b.r) \div (b.h \div B15)
             + InvSlack,
         -b.e - 89]

Refine[b \in Real, q \in Nat] ==
    Refined[b, q, Correction[q, Defect[MulCore[b.h, b.l, q, 0]]]]

\* 1 / b
Inv[b \in Real] == Refine[b, Estimate[Recip[b.h]]]

\* a / b
FDiv[a \in Real, b \in Real] == FMul[a, Inv[b]]

\* ln 2 * 2^60 in 15-bit limbs, and ln 2 * 2^23 rounded up.
Ln2A == 22713
Ln2B == 1533
Ln2C == 31289
Ln2D == 30618
Ln2Q == 5814540

\* e^(j/32) * 2^44 for j = 0..22, rounded down, as <<h, l>>.
ExpTable ==
    << <<536870912, 0>>, <<553913024, 4391>>, <<571496110, 32052>>,
       <<589637344, 29920>>, <<608354443, 14069>>, <<627665686, 14124>>,
       <<647589934, 2904>>, <<668146645, 8477>>, <<689355896, 16001>>,
       <<711238401, 20396>>, <<733815532, 1119>>, <<757109337, 16276>>,
       <<781142567, 23535>>, <<805938694, 18357>>, <<831521934, 31488>>,
       <<857917274, 19229>>, <<885150492, 7686>>, <<913248185, 249>>,
       <<942237794, 9572>>, <<972147632, 18264>>, <<1003006911, 227>>,
       <<1034845768, 3521>>, <<1067695299, 760>> >>

\* x = (h * 2^15 + l) * 2^(s - 45) < 128 in fixed point: its integer part
\* i and its fraction, fh in units of 2^-30 and fl in units of 2^-45.
Fixed[h \in Nat, l \in Nat, s \in Int] ==
    IF s >= 0
    THEN [i |-> h \div 2^(30 - s),
          fh |-> (h % 2^(30 - s)) * 2^s + (l * 2^s) \div B15,
          fl |-> (l * 2^s) % B15]
    ELSE [i |-> 0,
          fh |-> h \div 2^(-s),
          fl |-> ((h % 2^(-s)) * B15 + l) \div 2^(-s)]

FixedPoint == [i : Nat, fh : Nat, fl : Nat]

\* x - n ln 2 in units of 2^-45, as limbs (h < 0 when n is too large).
Rem[x \in FixedPoint, n \in Nat] ==
    Carry[(x.i * B15 - n * Ln2A) * B15 - n * Ln2B + x.fh,
          x.fl - n * Ln2C - (n * Ln2D) \div B15]

\* s^3/3! + ... + s^6/6! in units of 2^-45 for g = s * 2^35 < 2^30, from
\* the term of degree k: p = s^k * 2^(5k + 30) and d = k! * 32^(k - 3).
ExpTail[g \in Nat, p \in Nat, k \in Nat, d \in Nat] ==
    IF k = 6 THEN p \div d
    ELSE p \div d + ExpTail[g, MulHi[p, g] \div 2, k + 1, d * (k + 1) * 32]

Cube[g \in Nat] == MulHi[MulHi[g, g] \div 2, g] \div 2

\* The sum of the pairs a and b and of t units.
Add3[a \in Pair, b \in Pair, t \in Nat] == Carry[a.h + b.h, a.l + b.l + t]

Half[p \in Pair] == [h |-> p.h \div 2, l |-> (p.h % 2) * B14 + p.l \div 2]

\* e^s - 1 in units of 2^-45 for s = (sh * 2^15 + sl) * 2^-45 < 1/32:
\* s + s^2/2 + (s^3/3! + ... + s^6/6!).
ExpM1Small[sh \in Nat, sl \in Nat] ==
    Add3[[h |-> sh, l |-> sl], Half[MulCore[sh, sl, sh, sl]],
         ExpTail[sh * 32 + sl \div 1024, Cube[sh * 32 + sl \div 1024], 3, 6]]

\* What the radius of an exponential takes up besides its argument's: 3
\* for the argument in fixed point and n ln 2, 12 for ExpM1Small, 1 for the
\* table's entry, 6 for MulCore, and the rounding of np.exp.
ExpSlack == 32

\* 2^n * e^(j/32) * (1 + m1), m1 = e^s - 1 in units of 2^-45, t the
\* table's entry for j
ExpJoin[n \in Int, t \in Seq(Nat), m1 \in Pair, r \in Nat] ==
    Scaled[Add3[[h |-> t[1], l |-> t[2]], MulCore[t[1], t[2], m1.h, m1.l], 0],
           r, n - 44]

\* 2^n * e^rem for a remainder 0 <= rem < ln 2 in units of 2^-45
ExpParts[n \in Int, rem \in Pair, r \in Nat] ==
    ExpJoin[n, ExpTable[rem.h \div B25 + 1], ExpM1Small[rem.h % B25, rem.l], r]

\* x = n ln 2 + rem for n or n + 1, whichever leaves 0 <= rem < ln 2.
Reduce[x \in FixedPoint, n \in Nat, above \in Pair, r \in Nat] ==
    IF above.h >= 0 THEN ExpParts[n + 1, above, r]
    ELSE ExpParts[n, Rem[x, n], r]

ExpFixed[x \in FixedPoint, n \in Nat, r \in Nat] ==
    Reduce[x, n, Rem[x, n + 1], r]

ExpOf[x \in FixedPoint, r \in Nat] ==
    ExpFixed[x, ((x.i * B15 + x.fh \div B15) * 256) \div Ln2Q, r]

\* np.exp(x) for 1/64 <= x < 128, that is -50 <= x.e <= -38. The radius of
\* x in units of 2^-45 bounds that of e^x in units of its mantissa.
FExp[x \in Real] ==
    ExpOf[Fixed[x.h, x.l, x.e + 45],
          (IF x.e >= -45 THEN x.r * 2^(x.e + 45) ELSE x.r \div 2^(-x.e - 45))
              + ExpSlack]

\* a - 1, for a > 1 (a mantissa whose unit is above 1 absorbs the 1).
FSub1[a \in Real] ==
    IF a.e > 0 THEN [a EXCEPT !.r = a.r + 1]
    ELSE IF a.e <= -15 THEN Norm[a.h - 2^(-a.e - 15), a.l, a.r + 1, a.e]
    ELSE Norm[a.h + (a.l - 2^(-a.e)) \div B15, (a.l - 2^(-a.e)) % B15,
              a.r + 1, a.e]

\* The largest 30-bit float at or below every number of the enclosure a,
\* and the smallest at or above: floats [m, e] standing for m * 2^e.
Lower[a \in Real] ==
    LET h == a.h + (a.l - a.r) \div B15
    IN  IF h >= B29 THEN [m |-> h, e |-> a.e + 15]
        ELSE [m |-> 2 * h + ((a.l - a.r) % B15) \div B14, e |-> a.e + 14]

Upper[a \in Real] ==
    LET h == a.h + (a.l + a.r + B15 - 1) \div B15
    IN  IF h < B30 THEN [m |-> h, e |-> a.e + 15]
        ELSE [m |-> h \div 2 + (h % 2), e |-> a.e + 16]

Bounds[a \in Real] == [lo |-> Lower[a], hi |-> Upper[a]]

----------------------------------------------------------------------------
(* planck_equation                                                         *)

\* Constants (SI units): the binary64 numbers cut to 45 bits; c exactly.
h == [h |-> 923539388, l |-> 561, r |-> 1, e |-> -155]      \* 6.62607015e-34
c == Norm[299792458, 0, 0, -15]
k == [h |-> 560057770, l |-> 24164, r |-> 1, e |-> -120]    \* 1.380649e-23

\* Wavelength units per metre, 999e9, and metres per wavelength unit.
PerMetre == FMul[Norm[999, 0, 0, -15], Norm[1000000000, 0, 0, -15]]
PerUnit == Inv[PerMetre]

\* A wavelength of the model, w > 0 units, in metres: an enclosure of the
\* binary64 number the grid holds for it.
Metres[w \in Nat] == FMul[FromInt(w), PerUnit]

TwoHC2 == FMul[FMul[Norm[2, 0, 0, -15], h], FMul[c, c]]
HC == FMul[h, c]

\* wavelength**5
Square[w \in Real] == FMul[w, w]
Pow5[w \in Real] == FMul[Square[Square[w]], w]

\* part1 = (2 * h * c**2) / (wavelength**5)
part1[w \in Real] == FDiv[TwoHC2, Pow5[w]]

\* (h * c) / (wavelength * temp * k), temp > 0
Exponent[w \in Real, temp \in Nat] == FDiv[HC, FMul[FMul[w, FromInt(temp)], k]]

\* part2 = np.exp(...) - 1
part2[x \in Real] == FSub1[FExp[x]]

\* The radiances, the radiance 0, and the radiances from 0 to 2^-37
\* W m^-3 sr^-1.
Radiances == [lo : [m : Nat, e : Int], hi : [m : Nat, e : Int]]
Zero == [m |-> 0, e |-> 0]
Negligible == [lo |-> Zero, hi |-> [m |-> B29, e |-> -66]]

\* spectral_radiance = part1 / part2. An exponent of 128 or more makes
\* part2 exceed 2^184 (or overflow to infinity), and the quotient, part1
\* being below 2^147 at every wavelength of one unit or more, is below
\* 2^-37 (or 0).
Quotient[p1 \in Real, x \in Real] ==
    IF x.e >= -37 THEN Negligible ELSE Bounds[FDiv[p1, part2[x]]]

\* Planck's law at the wavelength w (in metres)
Planck[w \in Real, temp \in Nat] == Quotient[part1[w], Exponent[w, temp]]

\* Variant: the law at the temperature mirrored within the sweep's range, so
\* that a hotter body peaks at a longer wavelength.
RadianceMirrored(wl, temp) == Planck[Metres[wl], 11500 - temp]

Radiance(wl, temp) == Planck[Metres[wl], temp]

\* Variant: the series in the reverse order of the grid.
planck_equation_reversed(wavelength, temp) ==
    [i \in 1..Len(wavelength) |->
        Radiance(wavelength[Len(wavelength) + 1 - i], temp)]

planck_equation(wavelength, temp) ==
    [i \in 1..Len(wavelength) |-> Radiance(wavelength[i], temp)]

----------------------------------------------------------------------------
(* numpy reductions used by plot_planck                                    *)

\* x < y for floats
Less(x, y) ==
    /\ y.m > 0
    /\ x.m = 0 \/ x.e < y.e \/ (x.e = y.e /\ x.m < y.m)

\* The radiance n, for an integer 0 <= n < 2^30.
Exactly(n) == IF n = 0 THEN [lo |-> Zero, hi |-> Zero] ELSE Bounds[FromInt(n)]

\* A radiance surely below another, and surely not above it.
Below(x, y) == Less(x.hi, y.lo)
NotAbove(x, y) == ~Less(y.lo, x.hi)

\* Position (1-based) of the first largest bound ("lo" or "hi") in a
\* non-empty array: the later of two positions wins only with a larger one.
FirstMax(a, bound) ==
    LET pick[l \in 1..Len(a), r \in 1..Len(a)] ==
            IF Less(a[l][bound], a[r][bound]) THEN r ELSE l
        best[lo \in 1..Len(a), hi \in 1..Len(a)] ==
            IF lo = hi THEN lo
            ELSE pick[best[lo, (lo + hi) \div 2], best[(lo + hi) \div 2 + 1, hi]]
    IN  best[1, Len(a)]

\* Variant: the 0-based index of the last maximum.
np_argmax_last(a) ==
    {(CHOOSE n \in 1..Len(a) :
        /\ \A j \in 1..Len(a) : NotAbove(a[j], a[n])
        /\ \A j \in (n + 1)..Len(a) : Below(a[j], a[n])) - 1}

\* np.argmax of a non-empty array: the 0-based index of the first maximum.
\* The set of the indices n that can be it: those whose radiance can exceed
\* every radiance before and reach every radiance after, a[n].hi above
\* every earlier lo and at or above every later lo. With p the first
\* position of the largest lo, these are p, the earlier positions whose hi
\* reaches that lo, and the later ones whose hi exceeds it. Radiances that
\* are known exactly leave one index.
np_argmax(a) ==
    LET among[p \in 1..Len(a)] ==
            {n - 1 : n \in {j \in 1..Len(a) :
                               \/ j = p
                               \/ j < p /\ ~Less(a[j].hi, a[p].lo)
                               \/ j > p /\ Less(a[p].lo, a[j].hi)}}
    IN  among[FirstMax(a, "lo")]

\* np.max of a non-empty array: at least every lower bound and at most
\* some upper bound.
np_max(a) ==
    [lo |-> a[FirstMax(a, "lo")].lo, hi |-> a[FirstMax(a, "hi")].hi]

\* np.max raises ValueError on a zero-size array.
ZeroSize(a) == Len(a) = 0

\* Indexing an array of length n with index >= n raises IndexError.
OutOfBounds(a, index) == index >= Len(a)

\* Axes.plot raises ValueError when x and y differ in first dimension.
ShapeMismatch(x, y) == Len(x) # Len(y)

\* round(peak_wavelength, 10): the nearest multiple of 1e-10 m (0.1 nm), as
\* a count of them. No wavelength of the model lies halfway between two.
Round10(w) == (20 * w + 999) \div 1998

----------------------------------------------------------------------------
(* pyplot: the current figure, and the files savefig has written            *)

NoFigure ==
    [open |-> FALSE, lines |-> <<>>, xlabel |-> "", ylabel |-> "",
     ylim |-> <<>>, title |-> <<>>, legend |-> <<>>]

\* plt.plot and the other pyplot calls act on the current figure and
\* create one when none is open.
gcf(f) == IF f.open THEN f ELSE [NoFigure EXCEPT !.open = TRUE]

Line2D(x, y, fmt, label) == [x |-> x, y |-> y, fmt |-> fmt, label |-> label]

\* plt.legend(): one entry per labelled line of the axes.
Legend(lines) == [j \in 1..Len(lines) |-> lines[j].label]

\* 7e13 W m^-3 sr^-1, which is (1068115234 * 2^15 + 12288) * 2
YLimTop == Bounds[[h |-> 1068115234, l |-> 12288, r |-> 0, e |-> 1]]

\* A line as it shows in the image: its style and label, how many points
\* it joins, and its first and last point.
Drawn(line) ==
    [points |-> Len(line.x),
     first |-> <<line.x[1], line.y[1]>>,
     last |-> <<line.x[Len(line.x)], line.y[Len(line.y)]>>,
     fmt |-> line.fmt, label |-> line.label]

\* What savefig writes: the figure as drawn.
Frame(f) ==
    [lines |-> [j \in 1..Len(f.lines) |-> Drawn(f.lines[j])],
     xlabel |-> f.xlabel, ylabel |-> f.ylabel,
     ylim |-> f.ylim, title |-> f.title, legend |-> f.legend]

\* The file system after writing frame at name.
WriteFile(fs, name, frame) ==
    [n \in (DOMAIN fs) \cup {name} |-> IF n = name THEN frame ELSE fs[n]]

NoFiles == [n \in {} |-> <<>>]

----------------------------------------------------------------------------
(* plot_planck                                                             *)

\* The outcome of a call: the figure and files it leaves, the exception it
\* raised ("none" when it returned), whether savefig wrote, and its locals
\* (-1: not bound when the exception was raised). plot_planck gives the set
\* of the outcomes the call can have.
Outcome(f, fs, raised, wrote, mx, index, peak) ==
    [fig |-> f, files |-> fs, raised |-> raised, wrote |-> wrote,
     max_radiance |-> mx, peak_wavelength_index |-> index,
     peak_wavelength |-> peak]

\* Lines 43-51, for a non-empty radiance whose peak index is in the grid.
\* writable: whether savefig can write save_name (the environment's choice).
draw_and_save(f, fs, spectral_radiance, temp, wavelength_range, save_name, writable, max_radiance, index, peak_wavelength) ==
    LET f0 == gcf(f)
    IN  IF ShapeMismatch(wavelength_range, spectral_radiance)
        THEN Outcome(f0, fs, "ValueError: x and y must have same first dimension",
                     FALSE, max_radiance, index, peak_wavelength)
        ELSE
        LET curve  == Line2D(wavelength_range, spectral_radiance, "",
                             <<"Blackbody Function">>)
            marker == Line2D(<<peak_wavelength, peak_wavelength>>,
                             <<Exactly(0), max_radiance>>, "r--",
                             <<"Peak Wavelength = ", Round10(peak_wavelength), " m">>)
            lines  == f0.lines \o <<curve, marker>>
            f1 == [f0 EXCEPT !.lines = lines,
                             !.xlabel = "Wavelength (m)",
                             !.ylabel = "Spectral Radiance (W m$^{-3}$ sr$^{-1}$)",
                             !.ylim = <<Exactly(0), YLimTop>>,
                             !.title = <<"Blackbody Function for T = ", temp, " K">>,
                             !.legend = Legend(lines)]
        IN  IF writable
            THEN \* savefig, then close
                 Outcome(NoFigure, WriteFile(fs, save_name, Frame(f1)), "none",
                         TRUE, max_radiance, index, peak_wavelength)
            ELSE \* savefig raises: plt.close() is not reached
                 Outcome(f1, fs, "OSError", FALSE, max_radiance, index,
                         peak_wavelength)

\* Lines 38-40, then the drawing. max_radiance and peak_wavelength_index are
\* bound once, to the values np.max and np.argmax return: one outcome for
\* each index np.argmax can return.
find_peak_and_draw(f, fs, spectral_radiance, temp, wavelength_range, save_name, writable) ==
    LET located[max_radiance \in Radiances, peak_wavelength_index \in Int] ==
            IF OutOfBounds(wavelength_range, peak_wavelength_index)
            THEN Outcome(f, fs, "IndexError", FALSE, max_radiance,
                         peak_wavelength_index, -1)
            ELSE draw_and_save(f, fs, spectral_radiance, temp,
                               wavelength_range, save_name, writable,
                               max_radiance, peak_wavelength_index,
                               wavelength_range[peak_wavelength_index + 1])
    IN  {located[np_max(spectral_radiance), n] : n \in np_argmax(spectral_radiance)}

\* Variant: a call that returns at once, silently, on an empty radiance.
plot_planck_silent(f, fs, spectral_radiance, temp, wavelength_range, save_name, writable) ==
    IF ZeroSize(spectral_radiance)
    THEN {Outcome(f, fs, "none", FALSE, -1, -1, -1)}
    ELSE find_peak_and_draw(f, fs, spectral_radiance, temp, wavelength_range,
                            save_name, writable)

plot_planck(f, fs, spectral_radiance, temp, wavelength_range, save_name, writable) ==
    IF ZeroSize(spectral_radiance)
    THEN {Outcome(f, fs, "ValueError: zero-size array", FALSE, -1, -1, -1)}
    ELSE find_peak_and_draw(f, fs, spectral_radiance, temp, wavelength_range,
                            save_name, writable)

----------------------------------------------------------------------------
(* Test parameters                                                         *)

\* np.arange(start, stop, step) for integers start < stop, step > 0
arange(start, stop, step) ==
    [j \in 1..((stop - start + step - 1) \div step) |-> start + (j - 1) * step]

\* np.linspace(start, stop, num): num points, both ends included
linspace(start, stop, num) ==
    [j \in 1..num |->
        IF j = num /\ num > 1 THEN stop
        ELSE IF num = 1 THEN start
        ELSE start + ((j - 1) * (stop - start)) \div (num - 1)]

\* Variant: a sweep of four temperatures.
temp_range_short == arange(4500, 4600, 25)

temp_range == arange(4500, 7025, 25)

\* 100 nm to 2 um
wavelength_range == linspace(99900, 1998000, 1000)

save_path == "/Users/kykyelric/Sync/Astronomy-Python-Examples/planck_anim/Frames/"

\* str(i) for i >= 0, as a sequence of characters
Digit(d) == <<"0", "1", "2", "3", "4", "5", "6", "7", "8", "9">>[d + 1]

RECURSIVE str(_)
str(n) == IF n < 10 THEN <<Digit(n)>> ELSE str(n \div 10) \o <<Digit(n % 10)>>

\* Variant: no padding.
zfill_none(s, width) == s

\* s.zfill(width) for a string of digits
zfill(s, width) ==
    IF Len(s) >= width THEN s ELSE [j \in 1..(width - Len(s)) |-> "0"] \o s

\* f'frame{str(i).zfill(3)}.png'
file_name(n) == <<"frame">> \o zfill(str(n), 3) \o <<".png">>

\* save_path + file_name
save_name_of(n) == <<save_path>> \o file_name(n)

----------------------------------------------------------------------------
(* State                                                                   *)

VARIABLES
    pc,                 \* where the program is
    yielded,            \* how many items enumerate(temp_range) has yielded
    i,                  \* the loop's index
    temp,               \* the loop's temperature
    spectral_radiance,  \* the loop's radiance array
    grid,               \* the argument of a planck_equation call under test
    fig,                \* pyplot's current figure
    files,              \* the files written, by name
    writes,             \* the names savefig wrote during the sweep, in order
    call                \* the last plot_planck call: arguments and outcome

vars ==
    <<pc, yielded, i, temp, spectral_radiance, grid, fig, files, writes, call>>

\* The value of a name the module has not bound yet.
Unbound == "unbound"

NoCall ==
    [spectral_radiance |-> <<>>, temp |-> 0, wavelength_range |-> <<>>,
     save_name |-> <<>>, raised |-> "no call", max_radiance |-> -1,
     peak_wavelength_index |-> -1, peak_wavelength |-> -1]

CallRecord(sr, t, wr, name, out) ==
    [spectral_radiance |-> sr, temp |-> t, wavelength_range |-> wr,
     save_name |-> name, raised |-> out.raised,
     max_radiance |-> out.max_radiance,
     peak_wavelength_index |-> out.peak_wavelength_index,
     peak_wavelength |-> out.peak_wavelength]

\* A fresh interpreter: the loop's names unbound, no figure, nothing written
\* by this program.
Fresh ==
    /\ yielded = 0
    /\ i = Unbound
    /\ temp = Unbound
    /\ spectral_radiance = Unbound
    /\ grid = <<>>
    /\ fig = NoFigure
    /\ files = NoFiles
    /\ writes = <<>>
    /\ call = NoCall

----------------------------------------------------------------------------
(* The sweep (lines 59-68)                                                 *)

\* for i, temp in enumerate(temp_range): spectral_radiance = planck_equation(...)
SweepCompute ==
    /\ pc = "loop"
    /\ yielded < Len(temp_range)
    /\ yielded' = yielded + 1
    /\ i' = yielded
    /\ temp' = temp_range[yielded + 1]
    /\ spectral_radiance' =
           planck_equation(wavelength_range, temp_range[yielded + 1])
    /\ pc' = "render"
    /\ UNCHANGED <<grid, fig, files, writes, call>>

\* Variant: a loop that catches the exception and goes on to the next
\* temperature.
SweepRenderCatching ==
    /\ pc = "render"
    /\ \E writable \in BOOLEAN :
       \E out \in plot_planck(fig, files, spectral_radiance, temp,
                              wavelength_range, save_name_of(i), writable) :
         /\ fig' = out.fig
         /\ files' = out.files
         /\ call' = CallRecord(spectral_radiance, temp, wavelength_range,
                               save_name_of(i), out)
         /\ writes' = IF out.wrote THEN Append(writes, save_name_of(i))
                                   ELSE writes
    /\ pc' = "loop"
    /\ UNCHANGED <<yielded, i, temp, spectral_radiance, grid>>

\* file_name, save_name, plot_planck(...); an exception ends the program.
SweepRender ==
    /\ pc = "render"
    /\ \E writable \in BOOLEAN :
       \E out \in plot_planck(fig, files, spectral_radiance, temp,
                              wavelength_range, save_name_of(i), writable) :
         /\ fig' = out.fig
         /\ files' = out.files
         /\ call' = CallRecord(spectral_radiance, temp, wavelength_range,
                               save_name_of(i), out)
         /\ writes' = IF out.wrote THEN Append(writes, save_name_of(i))
                                   ELSE writes
         /\ pc' = IF out.raised = "none" THEN "loop" ELSE "failed"
    /\ UNCHANGED <<yielded, i, temp, spectral_radiance, grid>>

\* temp_range is exhausted
SweepEnd ==
    /\ pc = "loop"
    /\ yielded = Len(temp_range)
    /\ pc' = "done"
    /\ UNCHANGED <<yielded, i, temp, spectral_radiance, grid, fig, files,
                   writes, call>>

Init == pc = "loop" /\ Fresh

Next == SweepCompute \/ SweepRender \/ SweepEnd

Spec == Init /\ [][Next]_vars

\* The interpreter keeps running the loop until it ends or raises.
SpecLive == Spec /\ WF_vars(Next)

----------------------------------------------------------------------------
(* One plot_planck call in a fresh interpreter, over bounded arguments     *)

MaxLen == 3

SeqsUpTo(S, n) == UNION {[1..m -> S] : m \in 0..n}

\* The synthetic series of the peak-detection test, and a 5-point grid for it
PeakExample == <<Exactly(1), Exactly(5), Exactly(3), Exactly(5), Exactly(2)>>
ExampleGrid == linspace(99900, 1998000, 5)

CallRadiances ==
    SeqsUpTo({Exactly(1), Exactly(2), Exactly(3), Exactly(5)}, MaxLen)
        \cup {PeakExample}
CallGrids == SeqsUpTo({99900, 499500}, MaxLen) \cup {ExampleGrid}
CallTemps == {4500, 7000}

Call ==
    /\ pc = "call"
    /\ \E sr \in CallRadiances, wr \in CallGrids, t \in CallTemps,
          writable \in BOOLEAN :
       \E out \in plot_planck(fig, files, sr, t, wr, save_name_of(0),
                              writable) :
         /\ fig' = out.fig
         /\ files' = out.files
         /\ call' = CallRecord(sr, t, wr, save_name_of(0), out)
    /\ pc' = "returned"
    /\ UNCHANGED <<yielded, i, temp, spectral_radiance, grid, writes>>

InitCall == pc = "call" /\ Fresh

SpecCall == InitCall /\ [][Call]_vars

----------------------------------------------------------------------------
(* A session of plot_planck calls in one interpreter: a caller that        *)
(* catches the exceptions and calls again                                  *)

\* Calls are made while the current figure holds fewer than MaxLines lines.
MaxLines == 4

SessionRadiances ==
    {<<>>, <<Exactly(1)>>, <<Exactly(1), Exactly(2)>>, <<Exactly(2), Exactly(1)>>}
SessionGrids == {<<99900>>, <<99900, 499500>>}
SessionTemps == {4500}
SessionNames == {save_name_of(0), save_name_of(1)}

SessionCall ==
    /\ pc = "session"
    /\ Len(fig.lines) + 2 <= MaxLines
    /\ \E sr \in SessionRadiances, wr \in SessionGrids, t \in SessionTemps,
          name \in SessionNames, writable \in BOOLEAN :
       \E out \in plot_planck(fig, files, sr, t, wr, name, writable) :
         /\ fig' = out.fig
         /\ files' = out.files
         /\ call' = CallRecord(sr, t, wr, name, out)
    /\ UNCHANGED <<pc, yielded, i, temp, spectral_radiance, grid, writes>>

InitSession == pc = "session" /\ Fresh

SpecSession == InitSession /\ [][SessionCall]_vars

----------------------------------------------------------------------------
(* planck_equation on bounded grids, beside the sweep's own calls of it    *)

CalcWavelengths == {99900, 499500, 1998000}
CalcGrids == SeqsUpTo(CalcWavelengths, MaxLen)
CalcTemps == {300, 4500, 5778, 7000}

InitCalc ==
    /\ pc = "calc"
    /\ grid \in CalcGrids
    /\ temp \in CalcTemps
    /\ yielded = 0
    /\ i = Unbound
    /\ spectral_radiance = Unbound
    /\ fig = NoFigure
    /\ files = NoFiles
    /\ writes = <<>>
    /\ call = NoCall

Calc ==
    /\ pc = "calc"
    /\ spectral_radiance' = planck_equation(grid, temp)
    /\ pc' = "computed"
    /\ UNCHANGED <<yielded, i, temp, grid, fig, files, writes, call>>

SpecCalc == (InitCalc \/ Init) /\ [][Calc \/ Next]_vars

----------------------------------------------------------------------------
(* Properties                                                              *)

ShapeError == "ValueError: x and y must have same first dimension"
EmptyError == "ValueError: zero-size array"

\* n is the 0-based index of the first entry of a that no entry exceeds.
IsFirstMaximum(a, n) ==
    /\ n \in 0..(Len(a) - 1)
    /\ \A j \in 1..Len(a) : NotAbove(a[j], a[n + 1])
    /\ \A j \in 1..n : Below(a[j], a[n + 1])

\* C1: for a non-empty radiance series, the peak index plot_planck uses is
\* the first index holding the maximum, the peak radiance is that maximum,
\* the peak wavelength is the grid's entry at that index, and they are what
\* the marker of the written frame shows; for [1, 5, 3, 5, 2] the index is 1.
C1_PeakIsFirstMaximum ==
    (pc = "returned" /\ call.spectral_radiance # <<>>) =>
        LET sr == call.spectral_radiance
            n  == call.peak_wavelength_index
        IN  /\ IsFirstMaximum(sr, n)
            /\ call.max_radiance = sr[n + 1]
            /\ n < Len(call.wavelength_range) =>
                   call.peak_wavelength = call.wavelength_range[n + 1]
            /\ call.raised = "none" =>
                   /\ files[call.save_name].lines[2].points = 2
                   /\ files[call.save_name].lines[2].first =
                          <<call.wavelength_range[n + 1], Exactly(0)>>
                   /\ files[call.save_name].lines[2].last =
                          <<call.wavelength_range[n + 1], sr[n + 1]>>
            /\ sr = PeakExample => n = 1

C1_Witness ==
    /\ pc = "returned"
    /\ call.spectral_radiance = PeakExample
    /\ call.raised = "none"
    /\ call.peak_wavelength_index = 1
    /\ call.peak_wavelength = ExampleGrid[2]

\* C2: planck_equation returns a series as long as its grid (empty for the
\* empty grid, one entry for one wavelength) whose entry j is what the law
\* gives for the grid's entry j alone at that temperature; and in the sweep
\* the series handed to plot_planck is as long as wavelength_range.
C2_SeriesAlignedWithGrid ==
    /\ pc = "computed" =>
          /\ Len(spectral_radiance) = Len(grid)
          /\ \A j \in 1..Len(grid) :
                spectral_radiance[j] = planck_equation(<<grid[j]>>, temp)[1]
          /\ \A j \in 1..Len(grid) : Len(planck_equation(<<grid[j]>>, temp)) = 1
    /\ pc = "render" =>
          /\ Len(spectral_radiance) = Len(wavelength_range)
          /\ Len(wavelength_range) = 1000

C2_Witness ==
    /\ pc = "computed"
    /\ grid = <<1998000, 499500, 99900>>
    /\ temp = 5778
    /\ Below(spectral_radiance[1], spectral_radiance[2])
    /\ Below(spectral_radiance[3], spectral_radiance[1])

\* C3: called with an empty radiance series (what planck_equation returns
\* for the empty grid), plot_planck raises the empty-input error and
\* writes no frame.
C3_EmptyInputFails ==
    /\ \A t \in CallTemps : planck_equation(<<>>, t) = <<>>
    /\ (pc = "returned" /\ call.spectral_radiance = <<>>) =>
          /\ call.raised = EmptyError
          /\ DOMAIN files = {}
          /\ ~fig.open

C3_Witness ==
    /\ pc = "returned"
    /\ call.spectral_radiance = planck_equation(<<>>, 4500)
    /\ call.wavelength_range = <<>>
    /\ call.raised = EmptyError

Mismatched == Len(call.spectral_radiance) # Len(call.wavelength_range)

\* C4: a call with a radiance series and a grid of different lengths
\* raises the length-mismatch error and writes no frame. (For an empty
\* series the empty-input error of C3 is accepted here.)
C4_MismatchRaisesLengthError ==
    (pc = "returned" /\ Mismatched) =>
        /\ \/ call.raised = ShapeError
           \/ call.spectral_radiance = <<>> /\ call.raised = EmptyError
        /\ DOMAIN files = {}

\* 'frame' + n zero-padded to 3 digits + '.png' under save_path, n < 1000
PaddedName(n) ==
    <<save_path, "frame", Digit(n \div 100), Digit((n \div 10) % 10),
      Digit(n % 10), ".png">>

MaxIndex == 1100

NamesDistinct ==
    Cardinality({save_name_of(n) : n \in 0..MaxIndex}) = MaxIndex + 1

\* C5: the frame of the temperature at 0-based position n is written to
\* frame<n padded to 3 digits>.png; distinct positions get distinct names,
\* no name is written twice in a sweep, and the files follow the order of
\* the temperatures.
C5_FramesNamedByPosition ==
    /\ NamesDistinct
    /\ \A j \in 1..Len(writes) :
          /\ writes[j] = PaddedName(j - 1)
          /\ files[writes[j]].title[2] = temp_range[j]
    /\ \A j, l \in 1..Len(writes) : j # l => writes[j] # writes[l]

C5_Witness ==
    /\ Len(writes) = 101
    /\ writes[1] = <<save_path, "frame", "0", "0", "0", ".png">>
    /\ writes[18] = <<save_path, "frame", "0", "1", "7", ".png">>
    /\ writes[101] = <<save_path, "frame", "1", "0", "0", ".png">>

\* The frames written are exactly the frames of the temperatures the loop
\* has finished, written in that order; i and temp are those of the last
\* temperature the loop took.
C6_PrefixWritten ==
    /\ \A j \in 1..Len(writes) : writes[j] = PaddedName(j - 1)
    /\ DOMAIN files = {PaddedName(j - 1) : j \in 1..Len(writes)}
    /\ yielded = 0 => i = Unbound /\ temp = Unbound
    /\ yielded > 0 => i = yielded - 1 /\ temp = temp_range[yielded]
    /\ pc \in {"loop", "done"} => Len(writes) = yielded
    /\ pc = "render" =>
          /\ Len(writes) = i
          /\ spectral_radiance = planck_equation(wavelength_range, temp)
    /\ pc = "failed" =>
          /\ Len(writes) = i
          /\ call.raised # "none"
          /\ call.save_name = PaddedName(i)

\* A failed sweep has stopped.
C6_StoppedOnFailure ==
    pc = "failed" => (pc' = "failed" /\ files' = files /\ writes' = writes)

\* C6: the sweep handles one temperature at a time: the radiance of
\* temperature i is computed only once frames 0..i-1 are written, the
\* frames written are always frames 0..n-1 for some n, and when frame n
\* fails the sweep stops and writes nothing more.
C6_OneTemperatureAtATime == []C6_PrefixWritten /\ [][C6_StoppedOnFailure]_vars

C6_Witness ==
    /\ pc = "failed"
    /\ i = 3
    /\ DOMAIN files = {PaddedName(0), PaddedName(1), PaddedName(2)}

C7_AllFramesWritten ==
    pc = "done" =>
        /\ Len(writes) = 101
        /\ DOMAIN files = {PaddedName(n) : n \in 0..100}
        /\ \A n \in 0..100 :
              /\ writes[n + 1] = PaddedName(n)
              /\ files[PaddedName(n)].title =
                    <<"Blackbody Function for T = ", 4500 + 25 * n, " K">>
        /\ files[PaddedName(100)].title[2] = 7000
        /\ call.temp = 7000

\* C7: unless a frame fails, the sweep ends, having visited 4500 K to
\* 7000 K in steps of 25 K in increasing order, once each, and written the
\* 101 frames frame000.png to frame100.png, one per temperature.
C7_SweepCompletes ==
    []C7_AllFramesWritten /\ <>(pc = "done" \/ pc = "failed")

C7_Witness ==
    /\ pc = "done"
    /\ i = 100
    /\ temp = 7000
    /\ Len(writes) = 101
    /\ files[PaddedName(100)].title[2] = 7000

\* C8 as stated: after every plot_planck call, whether it returned or
\* raised, no figure is left open.
C8_FigureReleased == call.raised # "no call" => ~fig.open

\* The frames a single call with the last call's arguments can write in a
\* fresh interpreter.
FreshFrame ==
    {out.files[call.save_name] :
        out \in plot_planck(NoFigure, NoFiles, call.spectral_radiance,
                            call.temp, call.wavelength_range, call.save_name,
                            TRUE)}

\* C9 as stated: whatever calls came before, failed ones included, a call
\* that returns has written the frame a single call with its arguments
\* writes in a fresh interpreter.
C9_SameFrameAsFresh ==
    call.raised = "none" => files[call.save_name] \in FreshFrame

\* The peak wavelength drawn in the j-th frame written.
PeakDrawn(j) == files[writes[j]].lines[2].first[1]

\* C10: over the sweep, on the 1000-point grid from 100 nm to 2000 nm, the
\* peak wavelength of each frame is never above that of the frame before.
C10_PeakNeverIncreases ==
    \A j \in 1..(Len(writes) - 1) :
        /\ files[writes[j]].title[2] < files[writes[j + 1]].title[2]
        /\ PeakDrawn(j + 1) <= PeakDrawn(j)

C10_Witness ==
    /\ Len(writes) = 101
    /\ PeakDrawn(1) = wavelength_range[287]
    /\ PeakDrawn(101) = wavelength_range[166]
====
